---------------------------- MODULE Spec2Model ----------------------------
(***************************************************************************)
(* Model of the MPD client engine of node-mpc (src/index.js): the          *)
(* connection lifecycle, the line reader and response parser of the data   *)
(* handler, the FIFO queue of pending continuations and the idle flag.     *)
(*                                                                         *)
(* Text is a sequence of one-character strings, so that the reader and the *)
(* parser work on characters as the JavaScript does.                       *)
(***************************************************************************)
EXTENDS Integers, Sequences, FiniteSets, TLC

(***************************************************************************)
(* Bounds of the model.                                                    *)
(***************************************************************************)
MaxSockets == 2     \* connect() calls, one transport each
MaxCalls == 3       \* command(), commandList() and idle() calls on a transport
MaxChanges == 1     \* change notifications the server raises on a transport
MaxPartial == 1     \* characters of an unfinished line a chunk may end with
MaxLines == 3       \* lines of a stream the server sends unasked

Sockets == 1..MaxSockets
Calls == 1..MaxCalls

(***************************************************************************)
(* Text helpers: the String methods the source uses.                       *)
(***************************************************************************)
NL == "\n"

StartsWith(str, prefix) ==
  /\ Len(str) >= Len(prefix)
  /\ SubSeq(str, 1, Len(prefix)) = prefix

EndsWith(str, suffix) ==
  /\ Len(str) >= Len(suffix)
  /\ SubSeq(str, Len(str) - Len(suffix) + 1, Len(str)) = suffix

\* str.indexOf(sub, from): 0-based position of the first occurrence at or
\* after from, -1 when there is none.
RECURSIVE IndexOf(_, _, _)
IndexOf(str, sub, from) ==
  IF from + Len(sub) > Len(str) THEN -1
  ELSE IF SubSeq(str, from + 1, from + Len(sub)) = sub THEN from
  ELSE IndexOf(str, sub, from + 1)

\* str.substring(from, to) and str.substring(from), 0-based, end exclusive.
Substring(str, from, to) == SubSeq(str, from + 1, to)
\* Variant: the rest of the text is lost.
SubstringFromNothing(str, from) == <<>>

SubstringFrom(str, from) == SubSeq(str, from + 1, Len(str))

\* str.split('\n'): the pieces between newlines, the last one possibly empty.
RECURSIVE SplitNL(_)
SplitNL(str) ==
  LET i == IndexOf(str, <<NL>>, 0)
  IN  IF i = -1 THEN <<str>>
      ELSE <<Substring(str, 0, i)>> \o SplitNL(SubstringFrom(str, i + 1))

\* status.replace('\n', ''): the first newline removed.
RemoveFirstNL(str) ==
  LET i == IndexOf(str, <<NL>>, 0)
  IN  IF i = -1 THEN str
      ELSE Substring(str, 0, i) \o SubstringFrom(str, i + 1)

(***************************************************************************)
(* Protocol words.                                                         *)
(***************************************************************************)
OKWord == <<"O", "K">>
ACKWord == <<"A", "C", "K">>
OKMPDWord == <<"O", "K", " ", "M", "P", "D">>
Separator == <<":", " ">>
ChangedKey == <<"c", "h", "a", "n", "g", "e", "d">>
IdleLine == <<"i", "d", "l", "e", NL>>
NoIdleLine == <<"n", "o", "i", "d", "l", "e", NL>>
ListOkBegin == <<"c", "o", "m", "m", "a", "n", "d", "_", "l", "i", "s", "t", "_",
                 "o", "k", "_", "b", "e", "g", "i", "n", NL>>
ListBegin == <<"c", "o", "m", "m", "a", "n", "d", "_", "l", "i", "s", "t", "_",
               "b", "e", "g", "i", "n", NL>>
ListEnd == <<"c", "o", "m", "m", "a", "n", "d", "_", "l", "i", "s", "t", "_",
             "e", "n", "d", NL>>

(***************************************************************************)
(* _parseResponse(contents, status).  data maps a key to [arr, v]: arr is  *)
(* FALSE for a single string v, TRUE for an array v of strings.            *)
(***************************************************************************)
EmptyData == [k \in {} |-> 0]

\* data is an object literal, {}: for a name that Object.prototype defines,
\* data[key] is the inherited function until the key is assigned.  valueOf
\* stands for these names.
InheritedKeys == {<<"v", "a", "l", "u", "e", "O", "f">>}
InheritedValue == <<"function">>

\* The three branches on data[key]: null or undefined, an array, anything else.
PutField(data, key, val) ==
  IF key \notin DOMAIN data /\ key \notin InheritedKeys
    THEN [k \in DOMAIN data \cup {key} |->
            IF k = key THEN [arr |-> FALSE, v |-> val] ELSE data[k]]
  ELSE IF key \notin DOMAIN data
    THEN [k \in DOMAIN data \cup {key} |->
            IF k = key THEN [arr |-> TRUE, v |-> <<InheritedValue, val>>]
            ELSE data[k]]
  ELSE IF data[key].arr
    THEN [data EXCEPT ![key] = [arr |-> TRUE, v |-> Append(@.v, val)]]
  ELSE [data EXCEPT ![key] = [arr |-> TRUE, v |-> <<@.v, val>>]]

\* Variant: a line without the separator ends the loop and the fields parsed
\* before it are kept.
RECURSIVE ParseLinesKeep(_, _, _)
ParseLinesKeep(pieces, i, data) ==
  IF i > Len(pieces) THEN data
  ELSE LET line == pieces[i]
           sep == IndexOf(line, Separator, 0)
       IN  IF line = <<>> THEN ParseLinesKeep(pieces, i + 1, data)
           ELSE IF sep = -1 THEN data
           ELSE ParseLinesKeep(pieces, i + 1,
                               PutField(data, Substring(line, 0, sep),
                                        SubstringFrom(line, sep + 2)))

\* The loop over contents.split('\n'): i is the next piece, data the map so far.
RECURSIVE ParseLines(_, _, _)
ParseLines(pieces, i, data) ==
  IF i > Len(pieces) THEN data
  ELSE LET line == pieces[i]
           sep == IndexOf(line, Separator, 0)
       IN  IF line = <<>> THEN ParseLines(pieces, i + 1, data)
           ELSE IF sep = -1 THEN EmptyData
           ELSE ParseLines(pieces, i + 1,
                           PutField(data, Substring(line, 0, sep),
                                    SubstringFrom(line, sep + 2)))

ParseResponse(contents, status) ==
  [data |-> IF contents # <<>> THEN ParseLines(SplitNL(contents), 1, EmptyData)
            ELSE EmptyData,
   status |-> RemoveFirstNL(status),
   full |-> contents \o status]


(***************************************************************************)
(* State.                                                                  *)
(***************************************************************************)
VARIABLES
  socket,          \* this.socket: 0 for null, else the number of the transport
  isIdle,          \* this[$isIdle]
  queue,           \* this[$queue]: entries [resolve, reject]
  readyListeners,  \* connect() promises registered by this.on('ready', resolve)
  immediates,      \* callbacks scheduled with setImmediate, oldest first
  promise,         \* the promise of each command()/commandList()/idle() call
  connPromise,     \* the promise of each connect() call
  emitted,         \* per transport: the events it made the client emit, oldest first
  lastCall,        \* the most recent public call and what it returned
  phase,           \* per transport: "none", "opening", "open", "closed"
  endCalls,        \* per transport: number of socket.end() calls
  buffer,          \* per transport: the data handler's carry-over buffer
  pendingWrites,   \* per transport: writes whose callback has not run yet
  wire,            \* per transport: all text written to it so far
  inbound,         \* per transport: text sent by the server, not yet delivered
  inboundTag,      \* per character of inbound: the call whose response ends there
  srv,             \* per transport: the server's session state
  stats,           \* counters of queue pushes and dispatched frames
  written          \* per transport: number of writes whose callback has run

clientVars == <<socket, isIdle, queue, readyListeners, immediates, promise,
                connPromise, emitted, lastCall>>
transportVars == <<phase, endCalls, buffer, pendingWrites, wire, inbound,
                   inboundTag>>
vars == <<clientVars, transportVars, srv, stats, written>>

Noop == 0
NoopEntry == [resolve |-> Noop, reject |-> Noop]
NoResponse == [data |-> EmptyData, status |-> <<>>, full |-> <<>>]
\* A promise: its state and value, and for the record the number of times its
\* resolve or reject was called (calls), the tag and the ordinal of the frame
\* that settled it (tag, nth), its transport, the text command() was given
\* (given), the text with its newline (text), the commands and listOk that
\* commandList() was given (list) and the idle flag as the call found it
\* (whileIdle).
NoPromise == [kind |-> "none", state |-> "none", value |-> NoResponse,
              calls |-> 0, tag |-> 0, nth |-> 0, sock |-> 0, text |-> <<>>,
              given |-> <<>>, list |-> <<>>, whileIdle |-> FALSE]
\* The record of what has happened: queue pushes, frames dispatched, banners
\* seen, and the text each data handler has been given so far.
NoStats == [pushed |-> 0, matched |-> 0, unsolicited |-> 0, notified |-> 0,
            banners |-> 0, lateBanners |-> 0, read |-> [s \in Sockets |-> <<>>]]
NoConnPromise == [state |-> "none", value |-> <<>>, bySock |-> 0]
NoSrv == [idle |-> FALSE, idleTag |-> 0, list |-> "none", reply |-> <<>>,
          failed |-> FALSE, changes |-> 0, dead |-> FALSE]

Zeros(n) == [i \in 1..n |-> 0]

Init ==
  /\ socket = 0
  /\ isIdle = FALSE
  /\ queue = <<>>
  /\ readyListeners = <<>>
  /\ immediates = <<>>
  /\ promise = [p \in Calls |-> NoPromise]
  /\ connPromise = [s \in Sockets |-> NoConnPromise]
  /\ emitted = [s \in Sockets |-> <<>>]
  /\ lastCall = [op |-> "new", result |-> "none"]
  /\ phase = [s \in Sockets |-> "none"]
  /\ endCalls = [s \in Sockets |-> 0]
  /\ buffer = [s \in Sockets |-> <<>>]
  /\ pendingWrites = [s \in Sockets |-> <<>>]
  /\ wire = [s \in Sockets |-> <<>>]
  /\ inbound = [s \in Sockets |-> <<>>]
  /\ inboundTag = [s \in Sockets |-> <<>>]
  /\ srv = [s \in Sockets |-> NoSrv]
  /\ stats = NoStats
  /\ written = [s \in Sockets |-> 0]

(***************************************************************************)
(* isConnected(), disconnect(), connect().                                 *)
(***************************************************************************)
\* socket.readyState of transport s.
ReadyState(s) ==
  CASE phase[s] = "closed" -> "closed"
    [] phase[s] = "opening" -> "opening"
    [] phase[s] = "open" /\ endCalls[s] > 0 -> "readOnly"
    [] OTHER -> "open"

\* Variant: the transport's readyState is not looked at.
IsConnectedSocketSet == socket # 0

IsConnected == socket # 0 /\ ReadyState(socket) # "closed"

\* The transport and the socket field after disconnect().
DisconnectEnd == IF IsConnected THEN [endCalls EXCEPT ![socket] = @ + 1]
                 ELSE endCalls

\* Variant: the socket field keeps the ended transport.
DisconnectSocketKept == socket

DisconnectSocket == IF IsConnected THEN 0 ELSE socket

\* Variant: disconnect() drops the entries of the requests under way.
DisconnectQueueCleared == <<>>

\* disconnect() does not touch this[$queue].
DisconnectQueue == queue

Disconnect ==
  /\ endCalls' = DisconnectEnd
  /\ socket' = DisconnectSocket
  /\ queue' = DisconnectQueue
  /\ lastCall' = [op |-> "disconnect",
                   result |-> IF lastCall.op = "disconnect" THEN "repeated"
                              ELSE "none"]
  /\ UNCHANGED <<isIdle, readyListeners, immediates, promise, connPromise,
                 emitted, phase, buffer, pendingWrites, wire,
                 inbound, inboundTag, srv, stats, written>>

\* The transport connect() opens: the next unused one.
FreshSocket(s) == phase[s] = "none" /\ \A t \in 1..(s - 1) : phase[t] # "none"

\* Variant: connect() leaves the old transport as it is.
ConnectEndNothing == endCalls

\* The old transport is ended by connect() exactly when isConnected() holds.
ConnectEnd == DisconnectEnd

\* connect(), the caller making at most n connections.
Connect(n) ==
  \E s \in 1..n :
    /\ FreshSocket(s)
    /\ endCalls' = ConnectEnd
    /\ isIdle' = FALSE
    /\ socket' = s
    /\ phase' = [phase EXCEPT ![s] = "opening"]
    /\ buffer' = [buffer EXCEPT ![s] = <<>>]
    /\ connPromise' = [connPromise EXCEPT ![s] = [NoConnPromise EXCEPT !.state = "pending"]]
    /\ lastCall' = [op |-> "connect", result |-> "promise"]
    /\ UNCHANGED <<queue, readyListeners, immediates, promise, emitted,
                   pendingWrites, wire, inbound, inboundTag,
                   srv, stats, written>>

(***************************************************************************)
(* command(), commandList(), idle(): the synchronous part of each call.    *)
(***************************************************************************)
\* The promise a call that reaches the transport creates: the next unused one.
FreshCall(p) == promise[p].kind = "none"
                /\ \A q \in 1..(p - 1) : promise[q].kind # "none"

\* Variant: a newline is added to every text.
WithNewlineAlways(command) == command \o <<NL>>

\* command += '\n' unless it ends with one.
WithNewline(command) ==
  IF ~EndsWith(command, <<NL>>) THEN command \o <<NL>> ELSE command

\* A cancel-idle command is put in front when the flag is set.
AddsNoIdle(command) == isIdle /\ ~StartsWith(command, NoIdleLine)

\* The text command() hands to socket.write.
WrittenText(command) ==
  IF AddsNoIdle(command) THEN NoIdleLine \o command ELSE command

\* The pre-rejected promise returned when isConnected() is false.
NoConnection(op) ==
  /\ lastCall' = [op |-> op, result |-> "No active connection to write to."]
  /\ UNCHANGED <<socket, isIdle, queue, readyListeners, immediates, promise,
                 connPromise, emitted, transportVars, srv, stats, written>>

\* command(text), called as operation op.
CommandCall(text, op, list) ==
  IF ~IsConnected THEN NoConnection(op)
  ELSE \E p \in Calls :
         /\ FreshCall(p)
         /\ LET command == WithNewline(text)
            IN  pendingWrites' = [pendingWrites EXCEPT ![socket] =
                  Append(@, [text |-> WrittenText(command),
                             cb |-> [kind |-> "command", p |-> p,
                                     addedNoIdle |-> AddsNoIdle(command)]])]
         /\ promise' = [promise EXCEPT ![p] =
              [NoPromise EXCEPT !.kind = "command", !.state = "pending",
                                !.sock = socket, !.text = WithNewline(text),
                                !.given = text, !.list = list,
                                !.whileIdle = isIdle]]
         /\ lastCall' = [op |-> op, result |-> "promise"]
         /\ UNCHANGED <<socket, isIdle, queue, readyListeners, immediates,
                        connPromise, emitted, phase, endCalls, buffer, wire, inbound, inboundTag, srv, stats, written>>

\* Array.from(commands).join('\n') + '\n'
RECURSIVE JoinNL(_)
JoinNL(commands) ==
  IF commands = <<>> THEN <<>>
  ELSE IF Len(commands) = 1 THEN commands[1]
  ELSE commands[1] \o <<NL>> \o JoinNL(Tail(commands))

ListText(commands, listOk) ==
  (IF listOk THEN ListOkBegin ELSE ListBegin)
    \o JoinNL(commands) \o <<NL>> \o ListEnd

\* The command texts callers pass: play, status and toggle of the tests.
PlayText == <<"p">>
StatusText == <<"s">>
ToggleText == <<"t">>
IdleText == <<"i", "d", "l", "e">>
NoIdleText == <<"n", "o", "i", "d", "l", "e">>
CommandTexts == {PlayText, PlayText \o <<NL>>, StatusText, ToggleText}
CommandLists == {<<PlayText>>}

\* command(text) for a text of texts.
Command(texts) == \E text \in texts : CommandCall(text, "command", <<>>)

\* if (listOk == null) listOk = true: listOk is "true", "false" or left out.
Omitted == "undefined"
\* Variant: a listOk left out counts as false.
ListOkOrFalse(listOk) == listOk = "true"

ListOkOrTrue(listOk) == IF listOk = Omitted THEN TRUE ELSE listOk = "true"

\* commandList(commands, listOk) for a list of lists and a listOk of oks.
CommandList(lists, oks) ==
  \E commands \in lists, listOk \in oks :
    CommandCall(ListText(commands, ListOkOrTrue(listOk)), "commandList",
                <<commands, listOk>>)

\* Variant: idle() never finds the client idle.
AlreadyIdleNever == FALSE

\* if (this[$isIdle]) of idle()
AlreadyIdle == isIdle

Idle ==
  IF ~IsConnected THEN NoConnection("idle")
  ELSE \E p \in Calls :
         /\ FreshCall(p)
         /\ IF AlreadyIdle
              THEN /\ promise' = [promise EXCEPT ![p] =
                        [NoPromise EXCEPT !.kind = "idle", !.state = "resolved",
                                          !.calls = 1, !.sock = socket,
                                          !.whileIdle = TRUE]]
                   /\ UNCHANGED pendingWrites
              ELSE /\ promise' = [promise EXCEPT ![p] =
                        [NoPromise EXCEPT !.kind = "idle", !.state = "pending",
                                          !.sock = socket]]
                   /\ pendingWrites' = [pendingWrites EXCEPT ![socket] =
                        Append(@, [text |-> IdleLine,
                                   cb |-> [kind |-> "idle", p |-> p,
                                           addedNoIdle |-> FALSE]])]
         /\ lastCall' = [op |-> "idle", result |-> "promise"]
         /\ UNCHANGED <<socket, isIdle, queue, readyListeners, immediates,
                        connPromise, emitted, phase, endCalls, buffer, wire, inbound, inboundTag, srv, stats, written>>

(***************************************************************************)
(* Completion of a write: the text is on the wire and the callback runs.   *)
(***************************************************************************)
\* Variant: the entry is put at the head of the queue.
QueueUnshift(q, entry) == <<entry>> \o q

\* this[$queue].push(entry)
QueuePush(q, entry) == Append(q, entry)

\* Variant: the callback of idle() pushes the caller's pair as well.
AfterWriteQueueIdleToo(q, cb) ==
  LET q1 == IF cb.addedNoIdle THEN QueuePush(q, NoopEntry) ELSE q
  IN  QueuePush(q1, [resolve |-> cb.p, reject |-> cb.p])

\* Variant: the caller's pair is pushed first, the no-op pair after it.
AfterWriteQueueNoopLast(q, cb) ==
  IF cb.kind = "idle" THEN q
  ELSE LET q1 == QueuePush(q, [resolve |-> cb.p, reject |-> cb.p])
       IN  IF cb.addedNoIdle THEN QueuePush(q1, NoopEntry) ELSE q1

\* The queue after a write callback.  That of idle() pushes nothing; that of
\* command() pushes the no-op pair of an injected noidle first, then the
\* caller's pair.
AfterWriteQueue(q, cb) ==
  IF cb.kind = "idle" THEN q
  ELSE LET q1 == IF cb.addedNoIdle THEN QueuePush(q, NoopEntry) ELSE q
       IN  QueuePush(q1, [resolve |-> cb.p, reject |-> cb.p])

\* Tags of a written text: the call's number on its last character, and minus
\* that number on the newline of an injected noidle.
WriteTags(w) ==
  [i \in 1..Len(w.text) |->
     IF i = Len(w.text) THEN w.cb.p
     ELSE IF w.cb.addedNoIdle /\ i = Len(NoIdleLine) THEN 0 - w.cb.p
     ELSE 0]

\* resolve(value) / reject(value) of a call's promise; a no-op pair does nothing.
Settle(prom, p, state, value, tag, nth) ==
  IF p = Noop THEN prom
  ELSE IF prom[p].state = "pending"
    THEN [prom EXCEPT ![p] = [@ EXCEPT !.state = state, !.value = value,
                                       !.calls = @ + 1, !.tag = tag,
                                       !.nth = nth]]
  ELSE [prom EXCEPT ![p] = [@ EXCEPT !.calls = @ + 1]]

(***************************************************************************)
(* The data handler of a transport: line reader, classification, dispatch. *)
(* st is the part of the state the handler works on:                       *)
(* [isIdle, buffer, queue, immediates, promise, stats, written].           *)
(***************************************************************************)
\* Variant: an ACK line is not seen as a status line.
IsACKNever(line) == FALSE

\* Variant: a line that holds OK anywhere counts as a status line.
IsOKAnywhere(line) == IndexOf(line, OKWord, 0) # -1

IsOK(line) == StartsWith(line, OKWord)
IsACK(line) == StartsWith(line, ACKWord)
IsBanner(line) == StartsWith(line, OKMPDWord)

\* Variant: the head entry is read and left in the queue.
QueuePeek(q) == q

\* this[$queue].shift()
QueueShift(q) == Tail(q)

\* The subsystems of response.data.changed, a single value wrapped in a list.
ChangedList(response) ==
  IF response.data[ChangedKey].arr THEN response.data[ChangedKey].v
  ELSE <<response.data[ChangedKey].v>>

\* Variant: only the 'changed' event is scheduled.
ChangedImmediatesOnce(s, response) ==
  IF ChangedKey \in DOMAIN response.data
    THEN <<[kind |-> "changed", sock |-> s, arg |-> ChangedList(response)]>>
  ELSE <<>>

\* The setImmediate calls for a frame with a changed key.
ChangedImmediates(s, response) ==
  IF ChangedKey \in DOMAIN response.data
    THEN LET changed == ChangedList(response)
         IN  <<[kind |-> "changed", sock |-> s, arg |-> changed]>>
               \o [i \in 1..Len(changed) |->
                     [kind |-> "changed:", sock |-> s, arg |-> changed[i]]]
  ELSE <<>>

\* Variant: the head entry's resolve is called whatever the status.
CallResolve(prom, cbs, isOK, response, tag, nth) ==
  Settle(prom, cbs.resolve, "resolved", response, tag, nth)

\* The promise map after the head entry cbs is called with the response.
CallContinuation(prom, cbs, isOK, response, tag, nth) ==
  IF isOK THEN Settle(prom, cbs.resolve, "resolved", response, tag, nth)
  ELSE Settle(prom, cbs.reject, "rejected", response, tag, nth)

\* Variant: a frame nobody waits for is dropped.
PublishNothing(imm, s, response) == imm

\* setImmediate(() => this.emit('data', response))
Publish(imm, s, response) ==
  Append(imm, [kind |-> "data", sock |-> s, arg |-> response])

\* For the record: the frame with this tag is the server's answer to idle().
IsNotification(st, tag) == tag > 0 /\ st.promise[tag].kind = "idle"

\* A status line that is not the banner: parse, match or publish, announce changes.
Dispatch(st, s, line, tag) ==
  LET response == ParseResponse(st.buffer, line)
      st1 == IF Len(st.queue) > 0
               THEN [st EXCEPT !.queue = QueueShift(@),
                               !.promise = CallContinuation(@, Head(st.queue),
                                             IsOK(line), response, tag,
                                             st.stats.matched + st.stats.unsolicited + 1),
                               !.stats.matched = @ + 1]
             ELSE [st EXCEPT !.immediates = Publish(@, s, response),
                             !.stats.unsolicited = @ + 1]
  IN  [st1 EXCEPT !.buffer = <<>>,
                  !.immediates = @ \o ChangedImmediates(s, response),
                  !.stats.notified = @ + (IF IsNotification(st, tag) THEN 1 ELSE 0)]

\* The banner: 'ready' is emitted later, with buffer + line as they are then.
RecogniseBanner(st, s, line) ==
  [st EXCEPT !.immediates = Append(@, [kind |-> "ready", sock |-> s, arg |-> line]),
             !.buffer = <<>>,
             !.stats.banners = @ + 1,
             !.stats.lateBanners = @ + (IF st.written > 0 THEN 1 ELSE 0)]

HandleLine(st, s, line, tag) ==
  IF IsOK(line) \/ IsACK(line)
    THEN IF IsOK(line) /\ IsBanner(line) THEN RecogniseBanner(st, s, line)
         ELSE Dispatch(st, s, line, tag)
  ELSE [st EXCEPT !.buffer = @ \o line]

\* The while loop: prev is the 0-based start of the next line.
RECURSIVE ProcessLines(_, _, _, _, _)
ProcessLines(st, s, data, tags, prev) ==
  LET nl == 1 + IndexOf(data, <<NL>>, prev)
  IN  IF nl = 0 THEN [st EXCEPT !.buffer = @ \o SubstringFrom(data, prev)]
      ELSE ProcessLines(HandleLine(st, s, Substring(data, prev, nl), tags[nl]),
                        s, data, tags, nl)

\* Variant: the data handler leaves the idle flag as it is.
OnDataKeepsIdle(s, chunk, chunkTags) ==
  ProcessLines([isIdle |-> isIdle,
                buffer |-> <<>>, queue |-> queue, immediates |-> immediates,
                promise |-> promise, stats |-> stats, written |-> written[s]],
               s, buffer[s] \o chunk, Zeros(Len(buffer[s])) \o chunkTags, 0)

\* socket.on('data'): the state after the chunk has been handled.
OnData(s, chunk, chunkTags) ==
  ProcessLines([isIdle |-> FALSE,
                buffer |-> <<>>, queue |-> queue, immediates |-> immediates,
                promise |-> promise, stats |-> stats, written |-> written[s]],
               s, buffer[s] \o chunk, Zeros(Len(buffer[s])) \o chunkTags, 0)

\* The number of characters after the last newline of text.
RECURSIVE PartialLen(_)
PartialLen(text) ==
  IF text = <<>> \/ text[Len(text)] = NL THEN 0
  ELSE 1 + PartialLen(SubSeq(text, 1, Len(text) - 1))

\* The transport hands over any non-empty prefix of the text in flight that
\* leaves the reader at most MaxPartial characters into a line.
ChunkSizes(s) ==
  {k \in 1..Len(inbound[s]) :
     PartialLen(buffer[s] \o SubSeq(inbound[s], 1, k)) <= MaxPartial}

Deliver(s) ==
  /\ phase[s] = "open"
  /\ \E k \in ChunkSizes(s) :
       \E st \in {OnData(s, SubSeq(inbound[s], 1, k), SubSeq(inboundTag[s], 1, k))} :
           /\ isIdle' = st.isIdle
           /\ buffer' = [buffer EXCEPT ![s] = st.buffer]
           /\ queue' = st.queue
           /\ immediates' = st.immediates
           /\ promise' = st.promise
           /\ stats' = [st.stats EXCEPT !.read[s] = @ \o SubSeq(inbound[s], 1, k)]
           /\ inbound' = [inbound EXCEPT ![s] = SubSeq(@, k + 1, Len(@))]
           /\ inboundTag' = [inboundTag EXCEPT ![s] = SubSeq(@, k + 1, Len(@))]
  /\ UNCHANGED <<socket, readyListeners, connPromise, emitted, lastCall, phase,
                 endCalls, pendingWrites, wire, srv, written>>

(***************************************************************************)
(* A callback scheduled with setImmediate runs: the event is emitted.      *)
(***************************************************************************)
InSeq(x, seq) == \E i \in 1..Len(seq) : seq[i] = x

\* this.emit('ready', payload) calls every listener registered so far.
EmitReady(payload, s) ==
  [c \in Sockets |->
     IF InSeq(c, readyListeners) /\ connPromise[c].state = "pending"
       THEN [state |-> "resolved", value |-> payload, bySock |-> s]
     ELSE connPromise[c]]

RunImmediate ==
  /\ immediates # <<>>
  /\ LET im == Head(immediates)
     IN  /\ immediates' = Tail(immediates)
         /\ IF im.kind = "ready"
              THEN /\ emitted' = [emitted EXCEPT ![im.sock] =
                        Append(@, [name |-> "ready",
                                   arg |-> buffer[im.sock] \o im.arg])]
                   /\ connPromise' = EmitReady(buffer[im.sock] \o im.arg, im.sock)
              ELSE /\ emitted' = [emitted EXCEPT ![im.sock] =
                        Append(@, [name |-> im.kind, arg |-> im.arg])]
                   /\ UNCHANGED connPromise
  /\ UNCHANGED <<socket, isIdle, queue, readyListeners, promise, lastCall,
                 transportVars, srv, stats, written>>

(***************************************************************************)
(* The server at the far end of a transport.  It speaks the daemon's       *)
(* protocol sequentially: one frame per command, in the order received.    *)
(***************************************************************************)
Banner == OKMPDWord \o <<NL>>
OKLine == OKWord \o <<NL>>
ACKLine == ACKWord \o <<NL>>
ListOKLine == <<"l", "i", "s", "t", "_">> \o OKLine
BodyLine == <<"a", ":", " ", "b", NL>>
ChangedLine == ChangedKey \o Separator \o <<"x", NL>>

\* The frame the server answers an ordinary command with: OK for play, a body
\* and OK for status, ACK for anything else.
Reply(line) ==
  IF line = PlayText \o <<NL>> THEN OKLine
  ELSE IF line = StatusText \o <<NL>> THEN BodyLine \o OKLine
  ELSE ACKLine

\* A frame with the tag on its last character.
FrameTags(frame, tag) ==
  [i \in 1..Len(frame) |-> IF i = Len(frame) THEN tag ELSE 0]

RECURSIVE Repeat(_, _)
Repeat(text, n) == IF n = 0 THEN <<>> ELSE text \o Repeat(text, n - 1)

\* The server, as [srv, out, tags], after it has sent frame with tag.
Answer(sv, frame, tag) ==
  [sv EXCEPT !.out = @ \o frame, !.tags = @ \o FrameTags(frame, tag)]

\* The server reads one command line.  sv is [srv, out, tags]: its session
\* state and the text it has sent while reading the current write.
ServerLine(sv, line, tag) ==
  IF sv.srv.dead THEN sv
  ELSE IF sv.srv.list # "none"
    THEN IF line = ListEnd
           THEN Answer([sv EXCEPT !.srv.list = "none", !.srv.reply = <<>>,
                                  !.srv.failed = FALSE],
                       sv.srv.reply \o (IF sv.srv.failed THEN ACKLine ELSE OKLine),
                       tag)
         \* the list ends at its first command that fails
         ELSE IF sv.srv.failed THEN sv
         ELSE IF Reply(line) = ACKLine THEN [sv EXCEPT !.srv.failed = TRUE]
         \* a command that succeeds: its body, and list_OK in a list of that kind
         ELSE [sv EXCEPT !.srv.reply =
                 @ \o SubSeq(Reply(line), 1, Len(Reply(line)) - Len(OKLine))
                   \o (IF sv.srv.list = "ok" THEN ListOKLine ELSE <<>>)]
  ELSE IF sv.srv.idle
    THEN IF line = NoIdleLine
           THEN Answer([sv EXCEPT !.srv.idle = FALSE, !.srv.idleTag = 0], OKLine, tag)
         \* any other command while idling: the server drops the connection
         ELSE [sv EXCEPT !.srv.dead = TRUE]
  ELSE IF line = IdleLine
    THEN [sv EXCEPT !.srv.idle = TRUE, !.srv.idleTag = tag]
  ELSE IF line = NoIdleLine THEN sv
  ELSE IF line \in {ListOkBegin, ListBegin}
    THEN [sv EXCEPT !.srv.list = IF line = ListOkBegin THEN "ok" ELSE "plain"]
  ELSE Answer(sv, Reply(line), tag)

\* The server reads a written text line by line.
RECURSIVE ServerRead(_, _, _, _)
ServerRead(sv, text, tags, prev) ==
  LET nl == 1 + IndexOf(text, <<NL>>, prev)
  IN  IF nl = 0 THEN sv
      ELSE ServerRead(ServerLine(sv, Substring(text, prev, nl), tags[nl]),
                      text, tags, nl)

\* Something changes at the server while it idles: the idle command is answered.
ServerChange(s) ==
  /\ phase[s] = "open"
  /\ srv[s].idle /\ ~srv[s].dead
  /\ srv[s].changes < MaxChanges
  /\ srv' = [srv EXCEPT ![s].idle = FALSE, ![s].idleTag = 0, ![s].changes = @ + 1]
  /\ inbound' = [inbound EXCEPT ![s] = @ \o ChangedLine \o OKLine]
  /\ inboundTag' = [inboundTag EXCEPT ![s] =
                      @ \o FrameTags(ChangedLine \o OKLine, srv[s].idleTag)]
  /\ UNCHANGED <<clientVars, phase, endCalls, buffer, pendingWrites, wire,
                 stats, written>>

(***************************************************************************)
(* The transport.                                                          *)
(***************************************************************************)
\* The connection is established: the connect listener registers resolve for
\* 'ready', and the server greets with the banner.
Established(s) ==
  /\ phase[s] = "opening"
  /\ phase' = [phase EXCEPT ![s] = "open"]
  /\ readyListeners' = Append(readyListeners, s)
  /\ inbound' = [inbound EXCEPT ![s] = Banner]
  /\ inboundTag' = [inboundTag EXCEPT ![s] = Zeros(Len(Banner))]
  /\ UNCHANGED <<socket, isIdle, queue, immediates, promise, connPromise, emitted,
                 lastCall, endCalls, buffer, pendingWrites, wire, srv, stats,
                 written>>

\* The transport closes: a connection attempt fails with 'error', an open
\* connection is ended by the peer with 'end'.  Undelivered text is lost and the
\* event is forwarded to subscribers.
TransportClose(s) ==
  /\ phase[s] \in {"opening", "open"}
  /\ phase' = [phase EXCEPT ![s] = "closed"]
  /\ inbound' = [inbound EXCEPT ![s] = <<>>]
  /\ inboundTag' = [inboundTag EXCEPT ![s] = <<>>]
  /\ emitted' = [emitted EXCEPT ![s] =
       Append(@, [name |-> IF phase[s] = "opening" THEN "error" ELSE "end",
                  arg |-> <<>>])]
  /\ UNCHANGED <<socket, isIdle, queue, readyListeners, immediates, promise,
                 connPromise, lastCall, endCalls, buffer, pendingWrites, wire,
                 srv, stats, written>>

\* A write completes: the text is on the wire, where the server reads it, and
\* the callback given to socket.write runs.  On a closed transport the text is
\* lost and the callback still runs.
Flush(s) ==
  /\ pendingWrites[s] # <<>>
  /\ phase[s] \in {"open", "closed"}
  /\ \E w \in {Head(pendingWrites[s])} :
     \E sv \in {ServerRead([srv |-> srv[s], out |-> <<>>, tags |-> <<>>],
                          w.text, WriteTags(w), 0)} :
         /\ pendingWrites' = [pendingWrites EXCEPT ![s] = Tail(@)]
         /\ IF phase[s] = "open"
              THEN /\ wire' = [wire EXCEPT ![s] = @ \o w.text]
                   /\ srv' = [srv EXCEPT ![s] = sv.srv]
                   /\ inbound' = [inbound EXCEPT ![s] = @ \o sv.out]
                   /\ inboundTag' = [inboundTag EXCEPT ![s] = @ \o sv.tags]
              ELSE UNCHANGED <<wire, srv, inbound, inboundTag>>
         /\ queue' = AfterWriteQueue(queue, w.cb)
         /\ stats' = [stats EXCEPT !.pushed = @ + Len(queue') - Len(queue)]
         /\ IF w.cb.kind = "idle"
              THEN /\ isIdle' = TRUE
                   /\ promise' = Settle(promise, w.cb.p, "resolved", NoResponse, 0, 0)
              ELSE UNCHANGED <<isIdle, promise>>
  /\ written' = [written EXCEPT ![s] = @ + 1]
  /\ UNCHANGED <<socket, readyListeners, immediates, connPromise, emitted,
                 lastCall, phase, endCalls, buffer>>

(***************************************************************************)
(* The specification.                                                      *)
(***************************************************************************)
\* What every specification has: write completions, inbound data, deferred
\* events, and connections getting established.
Pipeline ==
  \/ RunImmediate
  \/ \E s \in Sockets : Flush(s)
  \/ \E s \in Sockets : Deliver(s)
  \/ \E s \in Sockets : Established(s)

\* One session of ordinary commands: the caller connects once and issues
\* play, status and toggle commands, each answered by one frame.
Next ==
  \/ Connect(1)
  \/ Command(CommandTexts)
  \/ Pipeline

Spec == Init /\ [][Next]_vars

\* A session of play and toggle commands, answered with OK and ACK, under fair
\* scheduling: a connection under way gets
\* established, a write handed to the transport completes, and text in flight
\* is handed to the data handler.
\* The data handler is told by what a step does to the text in flight.
Delivered(s) ==
  /\ phase[s] = "open"
  /\ \E k \in ChunkSizes(s) :
       inbound' = [inbound EXCEPT ![s] = SubSeq(@, k + 1, Len(@))]

Fairness ==
  /\ WF_vars(\E s \in Sockets : Established(s))
  /\ WF_vars(\E s \in Sockets : Flush(s))
  /\ WF_inbound(\E s \in Sockets : Delivered(s))

NextFair ==
  \/ Connect(1)
  \/ Command({PlayText, ToggleText})
  \/ Pipeline

FairSpec == Init /\ [][NextFair]_vars /\ Fairness

\* One session that only listens: the caller connects once and issues idle()
\* whenever it likes, and the server reports changes while it idles.
NextIdle ==
  \/ Connect(1)
  \/ Idle
  \/ \E s \in Sockets : ServerChange(s)
  \/ Pipeline

SpecIdle == Init /\ [][NextIdle]_vars

\* One session with idle() and commands that end it: the caller connects once
\* and issues idle(), play commands and explicit noidle commands.
NextRace ==
  \/ Connect(1)
  \/ Idle
  \/ Command({PlayText, NoIdleText})
  \/ Pipeline

SpecRace == Init /\ [][NextRace]_vars

\* One session with idle(), commands and command lists.
NextWake ==
  \/ Connect(1)
  \/ Idle
  \/ Command({PlayText})
  \/ CommandList(CommandLists, {"true"})
  \/ Pipeline

SpecWake == Init /\ [][NextWake]_vars

\* One session that listens with command('idle'), as the test does: the
\* caller connects once and issues idle as an ordinary command, and the
\* server reports changes while it idles.
NextIdleCommand ==
  \/ Connect(1)
  \/ Command({IdleText})
  \/ \E s \in Sockets : ServerChange(s)
  \/ Pipeline

SpecIdleCommand == Init /\ [][NextIdleCommand]_vars

\* One session with idle(), play commands and change notifications.
NextNotify ==
  \/ Connect(1)
  \/ Idle
  \/ Command({PlayText})
  \/ \E s \in Sockets : ServerChange(s)
  \/ Pipeline

SpecNotify == Init /\ [][NextNotify]_vars

\* Calls on a client that is connected or not: the caller connects once,
\* disconnects any number of times and issues commands and command lists,
\* and the peer may end the connection.
NextCalls ==
  \/ Connect(1)
  \/ Disconnect
  \/ Command({PlayText})
  \/ CommandList(CommandLists, {"true"})
  \/ \E s \in Sockets : TransportClose(s)
  \/ Pipeline

SpecCalls == Init /\ [][NextCalls]_vars

\* One session of command lists: the caller connects once and issues lists of
\* two commands: status and play, which succeed, with listOk left out, and
\* play before a command that fails, with listOk false.
NextList ==
  \/ Connect(1)
  \/ CommandList({<<StatusText, PlayText>>}, {Omitted})
  \/ CommandList({<<PlayText, ToggleText>>}, {"false"})
  \/ Pipeline

SpecList == Init /\ [][NextList]_vars

\* The connection lifecycle: connect, disconnect and reconnect, and
\* transports that get established, greet and close.
NextLife ==
  \/ Connect(MaxSockets)
  \/ Disconnect
  \/ RunImmediate
  \/ \E s \in Sockets : Deliver(s)
  \/ \E s \in Sockets : Established(s)
  \/ \E s \in Sockets : TransportClose(s)

SpecLife == Init /\ [][NextLife]_vars

\* Sessions over several connections: the caller connects, disconnects and
\* connects again, and issues play commands in between.
NextReconnect ==
  \/ Connect(MaxSockets)
  \/ Disconnect
  \/ Command({PlayText})
  \/ Pipeline

SpecReconnect == Init /\ [][NextReconnect]_vars

\* The frame reader alone.  The client is connected, nothing is under way, and
\* the transport holds a stream: the banner or not, then up to MaxLines lines,
\* each a body line, a change line or a status line.  The stream reaches the
\* data handler in chunks of any size.
ReaderLines == {BodyLine, ChangedLine, OKLine, ACKLine}

\* The texts of at most n lines, each one of lines.
RECURSIVE TextsOf(_, _)
TextsOf(lines, n) ==
  IF n = 0 THEN {<<>>}
  ELSE LET shorter == TextsOf(lines, n - 1)
       IN  shorter \cup {line \o rest : line \in lines, rest \in shorter}

Streams ==
  {start \o rest : start \in {<<>>, Banner}, rest \in TextsOf(ReaderLines, MaxLines)}

\* The client is connected and the transport holds one of streams.  With
\* waiting, command('s') has been written before, its pair is in the queue
\* and the stream is the server's answer to it.
InitStream(streams, waiting) ==
  \E stream \in streams :
    /\ socket = 1
    /\ isIdle = FALSE
    /\ queue = IF waiting THEN <<[resolve |-> 1, reject |-> 1]>> ELSE <<>>
    /\ readyListeners = <<1>>
    /\ immediates = <<>>
    /\ promise = [p \in Calls |->
                    IF waiting /\ p = 1
                      THEN [NoPromise EXCEPT !.kind = "command", !.state = "pending",
                                             !.sock = 1,
                                             !.text = WithNewline(StatusText),
                                             !.given = StatusText]
                    ELSE NoPromise]
    /\ connPromise = [s \in Sockets |->
                        IF s = 1 THEN [NoConnPromise EXCEPT !.state = "pending"]
                        ELSE NoConnPromise]
    /\ emitted = [s \in Sockets |-> <<>>]
    /\ lastCall = [op |-> "connect", result |-> "promise"]
    /\ phase = [s \in Sockets |-> IF s = 1 THEN "open" ELSE "none"]
    /\ endCalls = [s \in Sockets |-> 0]
    /\ buffer = [s \in Sockets |-> <<>>]
    /\ pendingWrites = [s \in Sockets |-> <<>>]
    /\ wire = [s \in Sockets |->
                 IF waiting /\ s = 1 THEN WithNewline(StatusText) ELSE <<>>]
    /\ inbound = [s \in Sockets |-> IF s = 1 THEN stream ELSE <<>>]
    /\ inboundTag = [s \in Sockets |->
                       IF s = 1
                         THEN [i \in 1..Len(stream) |->
                                 IF waiting /\ i = Len(stream) THEN 1 ELSE 0]
                       ELSE <<>>]
    /\ srv = [s \in Sockets |-> NoSrv]
    /\ stats = [NoStats EXCEPT !.pushed = IF waiting THEN 1 ELSE 0]
    /\ written = [s \in Sockets |-> IF waiting /\ s = 1 THEN 1 ELSE 0]

NextReader ==
  \/ \E s \in Sockets : Deliver(s)
  \/ RunImmediate

SpecReader == InitStream(Streams, FALSE) /\ [][NextReader]_vars

\* The parser.  The transport holds one frame, the answer to a command or a
\* frame nobody waits for: a body of up to MaxLines lines and a status line.  A body line has a key and a value, which may hold the
\* separator, or it has no separator, or it is blank.
KeyLine(key, val) == key \o Separator \o val \o <<NL>>

ParserKeys == {<<"a">>, ChangedKey} \cup InheritedKeys
SeparatorValue == <<"c">> \o Separator \o <<"d">>
MalformedLine == <<"a", ":", "b", NL>>
BlankLine == <<NL>>

ParserLines ==
  {KeyLine(key, <<"b">>) : key \in ParserKeys}
    \cup {KeyLine(ChangedKey, SeparatorValue), MalformedLine, BlankLine}

Frames ==
  {body \o status : body \in TextsOf(ParserLines, MaxLines),
                    status \in {OKLine, ACKLine}}

SpecParser == (\E waiting \in BOOLEAN : InitStream(Frames, waiting)) /\ [][NextReader]_vars

\* One data event.  The transport holds a stream, a command is pending or
\* none is, and the data handler is given the first chunk and no other.
FirstChunk(s) == stats.read[s] = <<>> /\ Deliver(s)

NextBurst == (\E s \in Sockets : FirstChunk(s)) \/ RunImmediate

SpecBurst == (\E waiting \in BOOLEAN : InitStream(Streams, waiting)) /\ [][NextBurst]_vars

(***************************************************************************)
(* Properties.                                                             *)
(***************************************************************************)
Settled(p) == promise[p].state \in {"resolved", "rejected"}

\* The frames the server's replies parse to.
OKFrame == [data |-> EmptyData, status |-> OKWord, full |-> OKLine]
ACKFrame == [data |-> EmptyData, status |-> ACKWord, full |-> ACKLine]
BodyFrame == [data |-> PutField(EmptyData, <<"a">>, <<"b">>),
              status |-> OKWord, full |-> BodyLine \o OKLine]
ChangedFrame == [data |-> PutField(EmptyData, ChangedKey, <<"x">>),
                 status |-> OKWord, full |-> ChangedLine \o OKLine]
ExpectedFrame(text) ==
  CASE text = PlayText \o <<NL>> -> OKFrame
    [] text = StatusText \o <<NL>> -> BodyFrame
    [] OTHER -> ACKFrame

\* C1: on one connection, the n-th response frame dispatched settles the
\* promise of the n-th command written, and that frame is the server's answer
\* to that very command.
C1_FifoCorrelation ==
  \A p \in Calls : Settled(p) => promise[p].tag = p /\ promise[p].nth = p

\* C1 happens: two commands were answered, the first with ACK, the second with OK.
C1_Witness ==
  /\ promise[1].state = "rejected" /\ promise[1].nth = 1
  /\ promise[2].state = "resolved" /\ promise[2].nth = 2

\* C2: the resolve or reject of a call is called at most once, a queued entry
\* belongs to a call not settled yet, and every matched frame has removed
\* exactly one entry from the queue.
C2_ConsumedOnce ==
  /\ \A p \in Calls : promise[p].calls <= 1
  /\ \A i \in 1..Len(queue) :
       queue[i].resolve # Noop =>
         /\ promise[queue[i].resolve].calls = 0
         /\ \A j \in 1..Len(queue) : queue[i].resolve = queue[j].resolve => i = j
  /\ Len(queue) = stats.pushed - stats.matched

\* C2 happens: the first call is settled and gone, the second is the queue's head.
C2_Witness ==
  /\ promise[1].calls = 1
  /\ Len(queue) = 1 /\ queue[1].resolve = 2
  /\ stats.matched = 1

\* C3: a call's promise is resolved exactly when the status line of its frame
\* begins with OK and rejected exactly when it begins with ACK, and its value
\* is the parsed frame in both cases.
C3_OkResolvesAckRejects ==
  \A p \in Calls :
    Settled(p) =>
      /\ promise[p].value = ExpectedFrame(promise[p].text)
      /\ promise[p].state = "resolved" <=> StartsWith(promise[p].value.status, OKWord)
      /\ promise[p].state = "rejected" <=> StartsWith(promise[p].value.status, ACKWord)

\* C3 happens: one promise is rejected with the ACK frame and one resolved
\* with a frame that has a body.
C3_Witness ==
  \E p, q \in Calls :
    /\ promise[p].state = "rejected" /\ promise[p].value = ACKFrame
    /\ promise[q].state = "resolved" /\ promise[q].value = BodyFrame

\* What the data handler of transport s leaves behind when an ACK or an OK
\* line completes the frame being read.
AfterACK(s) == OnData(s, ACKLine, Zeros(Len(ACKLine)))
AfterOK(s) == OnData(s, OKLine, Zeros(Len(OKLine)))

\* C4: an ACK frame leaves the queue, the read buffer and the idle flag as an
\* OK frame would, and a command settled after a rejected one is settled by
\* its own response.
C4_AckKeepsSync ==
  /\ \A s \in Sockets :
       phase[s] # "none" /\ PartialLen(buffer[s]) = 0 =>
         /\ AfterACK(s).queue = AfterOK(s).queue
         /\ AfterACK(s).buffer = AfterOK(s).buffer
         /\ AfterACK(s).isIdle = AfterOK(s).isIdle
  /\ \A p, q \in Calls :
       p < q /\ promise[p].state = "rejected" /\ Settled(q) =>
         promise[q].tag = q /\ promise[q].nth = q

\* C4 happens: a command was rejected while the next one was queued, and the
\* next one was then resolved with its own frame.
C4_Witness ==
  /\ promise[1].state = "rejected"
  /\ promise[2].state = "resolved" /\ promise[2].tag = 2
  /\ promise[2].value = BodyFrame
  /\ queue = <<>> /\ buffer[1] = <<>>

RECURSIVE CountKind(_, _)
CountKind(seq, kind) ==
  IF seq = <<>> THEN 0
  ELSE (IF Head(seq).kind = kind THEN 1 ELSE 0) + CountKind(Tail(seq), kind)

RECURSIVE CountName(_, _)
CountName(seq, name) ==
  IF seq = <<>> THEN 0
  ELSE (IF Head(seq).name = name THEN 1 ELSE 0) + CountName(Tail(seq), name)

RECURSIVE DataEmitted(_)
DataEmitted(n) ==
  IF n = 0 THEN 0 ELSE CountName(emitted[n], "data") + DataEmitted(n - 1)

RECURSIVE FrameCalls(_)
FrameCalls(n) ==
  IF n = 0 THEN 0
  ELSE (IF promise[n].kind = "command" THEN promise[n].calls ELSE 0)
       + FrameCalls(n - 1)

\* The frames that can arrive with nobody waiting: a change notification, or
\* the OK of a command whose entry an earlier notification has consumed.
UnsolicitedFrames == {ChangedFrame, OKFrame}

\* C5: a frame that completes while the queue is empty settles no promise and
\* is published as exactly one 'data' event that carries the parsed frame.
C5_UnsolicitedIsData ==
  /\ DataEmitted(MaxSockets) + CountKind(immediates, "data") = stats.unsolicited
  /\ FrameCalls(MaxCalls) <= stats.matched
  /\ \A i \in 1..Len(immediates) :
       immediates[i].kind = "data" => immediates[i].arg \in UnsolicitedFrames
  /\ \A s \in Sockets : \A i \in 1..Len(emitted[s]) :
       emitted[s][i].name = "data" => emitted[s][i].arg \in UnsolicitedFrames

\* C5 happens: a change notification arrived with nobody waiting and its
\* 'data' event has been emitted.
C5_Witness ==
  /\ stats.unsolicited = 1
  /\ \E i \in 1..Len(emitted[1]) :
       emitted[1][i].name = "data" /\ emitted[1][i].arg = ChangedFrame

\* No transport the client opened is still open or opening and not ended.
NoLiveTransport ==
  \A s \in Sockets : phase[s] \in {"none", "closed"} \/ endCalls[s] > 0

NoConnectionError == "No active connection to write to."

\* C6: without a connection, command() and commandList() return a promise
\* rejected with the error 'No active connection to write to.', write
\* nothing, and leave the queue and the idle flag as they are.
C6_RejectsWhenNotConnected ==
  [][(NoLiveTransport /\ (Command({PlayText}) \/ CommandList(CommandLists, {"true"})))
       => /\ lastCall'.result = NoConnectionError
          /\ UNCHANGED <<pendingWrites, wire, written, queue, isIdle, promise>>]_vars

\* C6 happens: a command list was refused after commands had been written on
\* a connection that disconnect() has ended since.
C6_Witness ==
  /\ lastCall = [op |-> "commandList", result |-> NoConnectionError]
  /\ socket = 0 /\ endCalls[1] = 1 /\ written[1] > 0

\* C7: after disconnect() the client is not connected and no transport has
\* been ended more than once; a disconnect() that follows a disconnect(), or
\* finds the client disconnected, changes nothing.
C7_DisconnectIdempotent ==
  [][Disconnect
       => /\ ~IsConnected'
          /\ NoLiveTransport'
          /\ \A s \in Sockets : endCalls'[s] <= 1
          /\ (lastCall.op = "disconnect" \/ NoLiveTransport)
               => UNCHANGED <<socket, isIdle, queue, readyListeners, immediates,
                              promise, connPromise, emitted, transportVars,
                              srv, stats, written>>]_vars

\* C7 happens: disconnect() was called twice in a row on a client that was
\* connected, and the transport has been ended once.
C7_Witness ==
  /\ lastCall = [op |-> "disconnect", result |-> "repeated"]
  /\ socket = 0 /\ phase[1] = "open" /\ endCalls[1] = 1

\* Transport s is live: opened by the client, not closed and not ended.
Live(s) == phase[s] \in {"opening", "open"} /\ endCalls[s] = 0

\* C8: at most one transport opened by the client is live at any time.
C8_OneLiveTransport == Cardinality({s \in Sockets : Live(s)}) <= 1

\* C8 happens: connect() was called while connected; the old transport is
\* still open but ended, the new one is live.
C8_Witness ==
  /\ phase[1] = "open" /\ endCalls[1] = 1
  /\ socket = 2 /\ Live(2)

\* The banner has been received on transport c: its 'ready' event is
\* scheduled or emitted.
BannerReceived(c) ==
  \/ \E i \in 1..Len(emitted[c]) : emitted[c][i].name = "ready"
  \/ \E i \in 1..Len(immediates) :
       immediates[i].kind = "ready" /\ immediates[i].sock = c

\* C9: the promise of a connect() call is not resolved before the banner has
\* been received on the transport that call opened.
C9_ResolvedAfterOwnBanner ==
  \A c \in Sockets : connPromise[c].state = "resolved" => BannerReceived(c)

\* C10: no banner is recognised once a command has been written on the
\* transport, and a recognised banner neither removes a queue entry nor
\* emits a 'data' event.
C10_BannerOnlyAtStart ==
  /\ stats.lateBanners = 0
  /\ Len(queue) = stats.pushed - stats.matched
  /\ DataEmitted(MaxSockets) + CountKind(immediates, "data") = stats.unsolicited

(***************************************************************************)
(* Idle mode.                                                              *)
(***************************************************************************)
\* The call p is an idle() call made in this step.
IdleCalled(p) == promise[p].kind = "none" /\ promise'[p].kind = "idle"

\* The promise of the idle() call p is settled in this step.
IdleSettled(p) ==
  /\ promise[p].kind = "idle"
  /\ promise[p].state = "pending"
  /\ promise'[p].state # "pending"

\* The texts handed to socket.write on transport s and not yet completed.
PendingTexts(s) == [i \in 1..Len(pendingWrites[s]) |-> pendingWrites[s][i].text]

\* C11: idle() on a connected client whose idle flag is clear hands 'idle\n'
\* to the transport and leaves the flag and the queue alone; when that write
\* completes, and in that very step, with no frame handled, the promise is
\* resolved, the flag is set and nothing is pushed on the queue.
C11_IdleEntry ==
  [][\A p \in Calls :
       /\ (IdleCalled(p) /\ ~isIdle) =>
            /\ promise'[p].state = "pending"
            /\ PendingTexts(socket)' = Append(PendingTexts(socket), IdleLine)
            /\ UNCHANGED <<isIdle, queue, wire, stats>>
       /\ IdleSettled(p) =>
            /\ promise'[p].state = "resolved"
            /\ isIdle'
            /\ queue' = queue
            /\ stats' = stats
            /\ written'[promise[p].sock] = written[promise[p].sock] + 1
            /\ phase[promise[p].sock] = "open" =>
                 wire'[promise[p].sock] = wire[promise[p].sock] \o IdleLine]_vars

\* C11 happens: idle() has been resolved by its write; the server idles and
\* has sent nothing for it, the flag is set and the queue is empty.
C11_Witness ==
  \E p \in Calls :
    /\ promise[p].kind = "idle" /\ promise[p].state = "resolved"
    /\ wire[1] = IdleLine
    /\ srv[1].idle /\ srv[1].changes = 0
    /\ isIdle /\ queue = <<>>
    /\ stats.pushed = 0 /\ stats.matched = 0 /\ stats.unsolicited = 0

CommandCalled(p) == promise[p].kind = "none" /\ promise'[p].kind = "command"

\* A write on transport s completes in this step.
Flushed(s) == written'[s] = written[s] + 1

\* The text of call p behind an injected noidle.
WithNoIdle(p) == NoIdleLine \o promise[p].text

\* The queue entry of call p.
CallEntry(p) == [resolve |-> p, reject |-> p]

\* C13: a command or command list, other than noidle, issued while the idle
\* flag is set is handed to the transport as one text, 'noidle\n' followed by
\* the command; when that write completes the wire gets exactly that text in
\* one piece, and the queue gets the no-op entry and then the caller's entry.
C13_NoIdleThenCommand ==
  [][/\ \A p \in Calls :
          (CommandCalled(p) /\ isIdle /\ ~StartsWith(promise'[p].text, NoIdleLine))
            => PendingTexts(socket)' =
                 Append(PendingTexts(socket), NoIdleLine \o promise'[p].text)
     /\ \A s \in Sockets :
          (Flushed(s) /\ Head(pendingWrites[s]).cb.kind = "command"
                      /\ Head(pendingWrites[s]).text
                           = WithNoIdle(Head(pendingWrites[s]).cb.p))
            => /\ phase[s] = "open" =>
                    wire'[s] = wire[s] \o WithNoIdle(Head(pendingWrites[s]).cb.p)
               /\ queue' = queue \o <<NoopEntry,
                                      CallEntry(Head(pendingWrites[s]).cb.p)>>]_vars

\* C13 happens: after idle(), a play command and a command list were both
\* issued with the flag set; both are on the wire behind their own noidle,
\* and the queue holds the two pairs of entries in that order.
C13_Witness ==
  \E p, q \in Calls :
    /\ wire[1] = IdleLine \o NoIdleLine \o PlayText \o <<NL>>
                   \o NoIdleLine \o ListText(<<PlayText>>, TRUE)
    /\ promise[q].text = ListText(<<PlayText>>, TRUE)
    /\ queue = <<NoopEntry, CallEntry(p), NoopEntry, CallEntry(q)>>

\* Transport s is open and nothing is under way on it: every write has
\* completed, the server is up and all it sent has been read.
Quiet(s) ==
  /\ phase[s] = "open" /\ ~srv[s].dead
  /\ pendingWrites[s] = <<>> /\ inbound[s] = <<>>

\* C14: a command issued in a session with idle() is settled by the frame
\* the server sent for that very command, which has happened once the
\* transport is quiet; the answer to an injected noidle settles no promise
\* and no frame is published as 'data'.
C14_OwnResponse ==
  /\ \A p \in Calls :
       promise[p].kind = "command" =>
         /\ promise[p].state # "pending" => promise[p].tag = p
         /\ Quiet(promise[p].sock) => promise[p].state # "pending"
  /\ stats.unsolicited = 0

\* The call p is command('noidle') and found the idle flag set.
NoIdleWhileIdle(p) ==
  /\ promise[p].kind = "command"
  /\ promise[p].text = NoIdleLine
  /\ promise[p].whileIdle

\* C15: command('noidle') called while the idle flag is set hands 'noidle\n'
\* alone to the transport; when the write completes the wire gets that text
\* and the queue the caller's entry and no other; the promise is resolved
\* with the OK the server sent for that noidle, which has happened once the
\* transport is quiet.
C15_ExplicitNoIdle ==
  /\ [][/\ \A p \in Calls :
             (CommandCalled(p) /\ isIdle /\ promise'[p].text = NoIdleLine)
               => PendingTexts(socket)' = Append(PendingTexts(socket), NoIdleLine)
        /\ \A s \in Sockets :
             (Flushed(s) /\ NoIdleWhileIdle(Head(pendingWrites[s]).cb.p))
               => /\ phase[s] = "open" => wire'[s] = wire[s] \o NoIdleLine
                  /\ queue' = Append(queue, CallEntry(Head(pendingWrites[s]).cb.p))]_vars
  /\ [](\A p \in Calls :
          NoIdleWhileIdle(p) =>
            /\ promise[p].state # "pending" =>
                 /\ promise[p].state = "resolved"
                 /\ promise[p].tag = p
                 /\ promise[p].value = OKFrame
            /\ Quiet(promise[p].sock) => promise[p].state # "pending")

\* The call p is command('idle').
IdleCommand(p) == promise[p].kind = "command" /\ promise[p].text = IdleLine

\* C16: the change notification that follows command('idle') is not taken as
\* the response of that call, and is published: once the transport is quiet
\* there is a 'data' event for every change the server has reported.
C16_NotificationIsData ==
  /\ \A p \in Calls :
       IdleCommand(p) => promise[p].value # ChangedFrame
  /\ \A s \in Sockets :
       Quiet(s) => stats.unsolicited >= srv[s].changes

\* The last command line that reached the wire, without its newline.
LastCommand(text) ==
  LET pieces == SplitNL(text)
  IN  IF Len(pieces) < 2 THEN <<>> ELSE pieces[Len(pieces) - 1]

\* C17: the idle flag is set exactly when the last command written to the
\* client's transport is idle.
C17_IdleFlagExact ==
  isIdle <=> (socket # 0 /\ LastCommand(wire[socket]) = IdleText)

\* C18: while the server of a transport is blocked in idle, every text that
\* reaches it begins with noidle.
C18_OnlyNoIdleWhileServerIdles ==
  [][\A s \in Sockets :
       (Flushed(s) /\ phase[s] = "open" /\ srv[s].idle)
         => StartsWith(Head(pendingWrites[s]).text, NoIdleLine)]_vars

\* The text the call p hands to socket.write; nothing for an idle() that
\* found the flag set.
TextOf(p) ==
  IF promise[p].kind = "idle"
    THEN (IF promise[p].whileIdle THEN <<>> ELSE IdleLine)
  ELSE IF promise[p].whileIdle /\ ~StartsWith(promise[p].text, NoIdleLine)
    THEN WithNoIdle(p)
  ELSE promise[p].text

\* The texts of the first n writes of the calls p, p + 1, ..., one after the
\* other in the order of the calls.
RECURSIVE InSubmissionOrder(_, _)
InSubmissionOrder(p, n) ==
  IF n = 0 \/ p > MaxCalls THEN <<>>
  ELSE IF TextOf(p) = <<>> THEN InSubmissionOrder(p + 1, n)
  ELSE TextOf(p) \o InSubmissionOrder(p + 1, n - 1)

\* C19: the wire holds the texts of the completed writes whole, one after
\* the other in the order of the calls; the callers' entries in the queue
\* are in the order of the calls; and a write that completes puts its
\* entries at the tail of the queue in the step that puts its text on the
\* wire, the only kind of step in which the queue grows.
C19_SubmissionOrder ==
  /\ [](/\ wire[1] = InSubmissionOrder(1, written[1])
        /\ \A i, j \in 1..Len(queue) :
             (i < j /\ queue[i].resolve # Noop /\ queue[j].resolve # Noop)
               => queue[i].resolve < queue[j].resolve)
  /\ [][/\ \A s \in Sockets :
             (Flushed(s) /\ Head(pendingWrites[s]).cb.kind = "command") =>
               /\ pendingWrites'[s] = Tail(pendingWrites[s])
               /\ wire'[s] = wire[s] \o TextOf(Head(pendingWrites[s]).cb.p)
               /\ Len(queue') > Len(queue)
               /\ queue'[Len(queue')] = CallEntry(Head(pendingWrites[s]).cb.p)
               /\ SubSeq(queue', 1, Len(queue)) = queue
        /\ Len(queue') > Len(queue) => \E s \in Sockets : Flushed(s)]_vars

\* C19 happens: a play command and a command list were under way together;
\* both texts are on the wire and both entries in the queue, in call order.
C19_Witness ==
  /\ wire[1] = PlayText \o <<NL>> \o ListText(<<PlayText>>, TRUE)
  /\ queue = <<CallEntry(1), CallEntry(2)>>
  /\ promise[1].state = "pending" /\ promise[2].state = "pending"

\* The frames published as 'data' so far, emitted or still to be emitted.
Published ==
  {immediates[i].arg : i \in {k \in 1..Len(immediates) : immediates[k].kind = "data"}}
    \cup UNION {{emitted[s][i].arg :
                   i \in {k \in 1..Len(emitted[s]) : emitted[s][k].name = "data"}} :
                s \in Sockets}

\* C20: the entry of a command is pushed in the step in which its write
\* completes, before anything else is written or read; and the frame the
\* server sends for a command is never published as 'data': every frame
\* published is a change notification.
C20_PushedBeforeResponse ==
  /\ [][\A s \in Sockets :
          (Flushed(s) /\ Head(pendingWrites[s]).cb.kind = "command") =>
            /\ Len(queue') > Len(queue)
            /\ queue'[Len(queue')] = CallEntry(Head(pendingWrites[s]).cb.p)
            /\ UNCHANGED <<buffer, immediates, promise>>]_vars
  /\ [](Published \subseteq {ChangedFrame})

(***************************************************************************)
(* The queue and the commands under way.                                   *)
(***************************************************************************)
\* The number of commands among the lines, a command list counting as one
\* command and idle, which is answered by a notification, as none.
RECURSIVE CountCommands(_, _)
CountCommands(lines, inList) ==
  IF lines = <<>> THEN 0
  ELSE LET line == Head(lines) \o <<NL>>
       IN  IF inList
             THEN (IF line = ListEnd THEN 1 ELSE 0)
                    + CountCommands(Tail(lines), line # ListEnd)
           ELSE IF line \in {ListOkBegin, ListBegin}
             THEN CountCommands(Tail(lines), TRUE)
           ELSE (IF line = IdleLine THEN 0 ELSE 1)
                  + CountCommands(Tail(lines), FALSE)

\* The commands written so far to the transports 1..n.
RECURSIVE CommandsWritten(_)
CommandsWritten(n) ==
  IF n = 0 THEN 0
  ELSE LET lines == SplitNL(wire[n])
       IN  CountCommands(SubSeq(lines, 1, Len(lines) - 1), FALSE)
             + CommandsWritten(n - 1)

\* The response frames dispatched so far: every frame but the notifications.
ResponsesDispatched == stats.matched + stats.unsolicited - stats.notified

\* C21: the queue holds as many entries as there are commands written, an
\* injected noidle included, whose response has not been dispatched.
C21_QueueCount ==
  Len(queue) = CommandsWritten(MaxSockets) - ResponsesDispatched

\* C22: disconnect() and the end or failure of a transport leave the queue
\* and every promise of a request as they are; the end or failure is
\* forwarded as one 'end' or 'error' event and nothing else.
C22_CloseSettlesNothing ==
  [][/\ Disconnect => UNCHANGED <<queue, promise, emitted, immediates>>
     /\ \A s \in Sockets :
          TransportClose(s) =>
            /\ UNCHANGED <<queue, promise, immediates>>
            /\ \E name \in {"end", "error"} :
                 emitted' = [emitted EXCEPT ![s] =
                               Append(@, [name |-> name, arg |-> <<>>])]]_vars

\* C22 happens: the caller has disconnected and the peer has ended the
\* transport while a command was written and unanswered; its entry is still
\* in the queue and its promise pending.
C22_Witness ==
  /\ lastCall.op = "disconnect" /\ socket = 0
  /\ phase[1] = "closed"
  /\ \E i \in 1..Len(emitted[1]) : emitted[1][i].name = "end"
  /\ wire[1] = PlayText \o <<NL>>
  /\ queue = <<CallEntry(1)>>
  /\ promise[1].state = "pending"

\* C23: on a transport that stays open, with a server that answers every
\* command in order with one frame, and under fair scheduling, the promise of
\* every command() call is eventually settled.
C23_EventuallySettled ==
  \A p \in Calls :
    (promise[p].kind = "command" /\ promise[p].state = "pending")
      ~> (promise[p].state \in {"resolved", "rejected"})

\* C23 happens: every call has been made, and every promise is settled while
\* the transport is open.
C23_Witness ==
  /\ phase[1] = "open"
  /\ \A p \in Calls :
       promise[p].kind = "command" /\ promise[p].state \in {"resolved", "rejected"}

(***************************************************************************)
(* The frame reader and the parser.                                        *)
(***************************************************************************)
\* An event as [kind, arg]; the payload of 'ready', which is read when the
\* event is emitted, is left out.
Plain(kind, arg) == [kind |-> kind, arg |-> IF kind = "ready" THEN <<>> ELSE arg]

\* The events scheduled with setImmediate, in order.
Scheduled(imm) == [i \in 1..Len(imm) |-> Plain(imm[i].kind, imm[i].arg)]

\* The events of transport s in the order of their setImmediate calls, those
\* emitted and those still to be emitted.
Events(s) ==
  [i \in 1..Len(emitted[s]) |-> Plain(emitted[s][i].name, emitted[s][i].arg)]
    \o Scheduled(immediates)

\* The data handler of transport s given all of text in one chunk, from the
\* state in which nothing has been read.
ReadAtOnce(s, text) ==
  ProcessLines([isIdle |-> FALSE, buffer |-> <<>>, queue |-> <<>>,
                immediates |-> <<>>, promise |-> [p \in Calls |-> NoPromise],
                stats |-> NoStats, written |-> 0],
               s, text, Zeros(Len(text)), 0)

\* The full texts of the frames among the events, one after the other.
RECURSIVE FullTexts(_)
FullTexts(events) ==
  IF events = <<>> THEN <<>>
  ELSE (IF Head(events).kind = "data" THEN Head(events).arg.full ELSE <<>>)
         \o FullTexts(Tail(events))

\* The text without the banner it may begin with.
AfterBanner(text) ==
  IF StartsWith(text, Banner) THEN SubSeq(text, Len(Banner) + 1, Len(text))
  ELSE text

\* C24: however the text read so far was cut into chunks, the frames
\* dispatched, with their data, status and full text, the events scheduled
\* and the unfinished rest are those of the same text read in one chunk;
\* and the full texts of the frames followed by the rest are the text read,
\* less the banner.
C24_ChunkingIndependent ==
  LET once == ReadAtOnce(1, stats.read[1])
  IN  /\ buffer[1] = once.buffer
      /\ Events(1) = Scheduled(once.immediates)
      /\ FullTexts(Events(1)) \o buffer[1] = AfterBanner(stats.read[1])

\* C24 happens: after a frame has been dispatched, a chunk has ended one
\* character into the status line of the next frame, whose body line is kept.
C24_Witness ==
  /\ stats.read[1] = OKLine \o BodyLine \o <<"O">>
  /\ buffer[1] = BodyLine \o <<"O">>
  /\ Events(1) = <<Plain("data", OKFrame)>>


(***************************************************************************)
(* The parser (C25 to C27).                                                *)
(***************************************************************************)
\* The responses of the frames dispatched on transport s: those the calls
\* were settled with and those of the 'data' events.
Responses(s) ==
  {promise[p].value : p \in {q \in Calls : promise[q].sock = s /\ Settled(q)}}
    \cup {Events(s)[i].arg :
            i \in {j \in 1..Len(Events(s)) : Events(s)[j].kind = "data"}}

\* The lines of the body of response r, without their newlines: its full
\* text less the status line.
BodyLinesOf(r) ==
  LET body == SubSeq(r.full, 1, Len(r.full) - Len(r.status) - 1)
      pieces == SplitNL(body)
  IN  SubSeq(pieces, 1, Len(pieces) - 1)

HasSeparator(line) == \E i \in 1..(Len(line) - 1) : SubSeq(line, i, i + 1) = Separator

\* The text of a line before its first ': ' and the text after it.
FirstSeparator(line) ==
  CHOOSE i \in 1..(Len(line) - 1) :
    /\ SubSeq(line, i, i + 1) = Separator
    /\ \A j \in 1..(i - 1) : SubSeq(line, j, j + 1) # Separator
KeyOf(line) == SubSeq(line, 1, FirstSeparator(line) - 1)
ValueOf(line) == SubSeq(line, FirstSeparator(line) + 2, Len(line))

KeyValueLines(lines) == \A i \in 1..Len(lines) : HasSeparator(lines[i])

DistinctKeys(lines) ==
  \A i, j \in 1..Len(lines) : i # j => KeyOf(lines[i]) # KeyOf(lines[j])

\* C25: a body of key: value lines with pairwise distinct keys is parsed to
\* the map of exactly those keys, each to the text after the first ': ' of
\* its line, as a single string.
C25_DistinctKeys ==
  \A r \in Responses(1) :
    LET lines == BodyLinesOf(r)
    IN  (KeyValueLines(lines) /\ DistinctKeys(lines)) =>
          /\ DOMAIN r.data = {KeyOf(lines[i]) : i \in 1..Len(lines)}
          /\ \A i \in 1..Len(lines) :
               r.data[KeyOf(lines[i])] = [arr |-> FALSE, v |-> ValueOf(lines[i])]

\* The same for the keys that Object.prototype does not define.
C25_OwnKeys ==
  \A r \in Responses(1) :
    LET lines == BodyLinesOf(r)
    IN  (/\ KeyValueLines(lines) /\ DistinctKeys(lines)
         /\ \A i \in 1..Len(lines) : KeyOf(lines[i]) \notin InheritedKeys) =>
          /\ DOMAIN r.data = {KeyOf(lines[i]) : i \in 1..Len(lines)}
          /\ \A i \in 1..Len(lines) :
               r.data[KeyOf(lines[i])] = [arr |-> FALSE, v |-> ValueOf(lines[i])]


\* The values of key in lines, in the order of the lines.
ValuesOf(lines, key) ==
  LET with == SelectSeq(lines, LAMBDA line : KeyOf(line) = key)
  IN  [i \in 1..Len(with) |-> ValueOf(with[i])]

\* C26: in a body of key: value lines a key that occurs k >= 2 times maps to
\* the sequence of its k values in the order of the body.
C26_RepeatedKey ==
  \A r \in Responses(1) :
    LET lines == BodyLinesOf(r)
    IN  KeyValueLines(lines) =>
          \A i \in 1..Len(lines) :
            LET values == ValuesOf(lines, KeyOf(lines[i]))
            IN  Len(values) >= 2 =>
                  /\ KeyOf(lines[i]) \in DOMAIN r.data
                  /\ r.data[KeyOf(lines[i])] = [arr |-> TRUE, v |-> values]

\* The same for the keys that Object.prototype does not define.
C26_OwnKeys ==
  \A r \in Responses(1) :
    LET lines == BodyLinesOf(r)
    IN  KeyValueLines(lines) =>
          \A i \in 1..Len(lines) :
            LET values == ValuesOf(lines, KeyOf(lines[i]))
            IN  (Len(values) >= 2 /\ KeyOf(lines[i]) \notin InheritedKeys) =>
                  /\ KeyOf(lines[i]) \in DOMAIN r.data
                  /\ r.data[KeyOf(lines[i])] = [arr |-> TRUE, v |-> values]


\* The pieces of the frame that transport s has read: its lines without their
\* newlines, the status line last.
FrameLines(s) ==
  LET pieces == SplitNL(stats.read[s])
  IN  SubSeq(pieces, 1, Len(pieces) - 1)

\* Some line that is not blank has no separator.
Malformed(lines) ==
  \E i \in 1..Len(lines) : lines[i] # <<>> /\ ~HasSeparator(lines[i])

\* C27: when the frame that answers a command has a body line that is not
\* blank and lacks ': ', the command is still settled, resolved for OK and
\* rejected for ACK, with an empty field map, the status line without its
\* newline as status, and the frame as it was read, blank and malformed lines
\* included, as full text.
C27_MalformedBody ==
  \A p \in Calls :
    (promise[p].sock = 1 /\ Settled(p)) =>
      LET lines == FrameLines(1)
          status == lines[Len(lines)]
          r == promise[p].value
      IN  Malformed(SubSeq(lines, 1, Len(lines) - 1)) =>
            /\ r.data = EmptyData
            /\ r.status = status
            /\ r.full = stats.read[1]
            /\ StartsWith(status, OKWord) => promise[p].state = "resolved"
            /\ StartsWith(status, ACKWord) => promise[p].state = "rejected"

\* C27 happens: a command is resolved by the frame of a field, a blank line,
\* a line without separator and OK.
C27_Witness ==
  /\ stats.read[1] = KeyLine(<<"a">>, <<"b">>) \o BlankLine \o MalformedLine \o OKLine
  /\ promise[1].state = "resolved"
  /\ promise[1].value.data = EmptyData
  /\ promise[1].value.full = stats.read[1]


(***************************************************************************)
(* Newline normalisation (C28).                                            *)
(***************************************************************************)
\* The text with one newline added unless its last character is a newline.
EndedByNewline(text) ==
  IF text # <<>> /\ text[Len(text)] = NL THEN text ELSE Append(text, NL)

\* C28: the text that command() hands to the transport is the caller's text
\* as it is when that ends with a newline, and the caller's text followed by
\* one newline when it does not; only the 'noidle' line of a set idle flag may
\* precede it.
C28_NewlineAdded ==
  [][\A p \in Calls :
       CommandCalled(p) =>
         LET writes == pendingWrites'[socket]
             text == writes[Len(writes)].text
         IN  /\ Len(writes) = Len(pendingWrites[socket]) + 1
             /\ text \in {EndedByNewline(promise'[p].given),
                          NoIdleLine \o EndedByNewline(promise'[p].given)}]_vars

\* C28 happens: command('p') and command('p\n') were called and written, and
\* the transport has carried 'p\n' for each.
C28_Witness ==
  \E p, q \in Calls :
    /\ promise[p].kind = "command" /\ promise[p].given = PlayText
    /\ promise[q].kind = "command" /\ promise[q].given = PlayText \o <<NL>>
    /\ wire[1] = PlayText \o <<NL>> \o PlayText \o <<NL>>


(***************************************************************************)
(* Command lists (C29, C30).                                               *)
(***************************************************************************)
\* Call p is a commandList() call.
ListCall(p) == promise[p].kind = "command" /\ promise[p].list # <<>>

\* Each command followed by a newline, one after the other.
RECURSIVE OwnLines(_)
OwnLines(commands) ==
  IF commands = <<>> THEN <<>>
  ELSE Head(commands) \o <<NL>> \o OwnLines(Tail(commands))

\* The text of a command list: the opening line for listOk, which is true,
\* false or left out, every command on a line of its own, the closing line.
ListWritten(list) ==
  (IF list[2] = "false" THEN ListBegin ELSE ListOkBegin)
    \o OwnLines(list[1]) \o ListEnd

\* C29: commandList() hands one text to the transport, the list from its
\* opening to its closing line, behind 'noidle' when the idle flag is set;
\* when that write completes the wire gets the text in one piece and the
\* queue one entry of the caller, behind the no-op entry of a noidle; and the
\* promise
\* is settled once, by the frame that ends with the last line of the server's
\* answer to the list, whatever list_OK lines come before it.
C29_ListIsOneExchange ==
  /\ [][\A p \in Calls :
          /\ (CommandCalled(p) /\ promise'[p].list # <<>>) =>
               /\ Len(pendingWrites'[socket]) = Len(pendingWrites[socket]) + 1
               /\ pendingWrites'[socket][Len(pendingWrites'[socket])].text
                    = (IF isIdle THEN NoIdleLine ELSE <<>>)
                        \o ListWritten(promise'[p].list)
          /\ \A s \in Sockets :
               (/\ ListCall(p) /\ Flushed(s)
                /\ Head(pendingWrites[s]).cb.p = p) =>
                 /\ phase[s] = "open" =>
                      wire'[s] = wire[s] \o Head(pendingWrites[s]).text
                 /\ queue' = (IF promise[p].whileIdle THEN Append(queue, NoopEntry)
                              ELSE queue) \o <<CallEntry(p)>>]_vars
  /\ [](\A p \in Calls :
          ListCall(p) =>
            /\ promise[p].calls <= 1
            /\ Settled(p) =>
                 /\ promise[p].calls = 1
                 /\ promise[p].tag = p
                 /\ promise[p].value.status \in {OKWord, ACKWord}
                 /\ promise[p].state = "resolved" <=> promise[p].value.status = OKWord)

\* C29 happens: two lists, one with listOk left out and one with listOk
\* false, have been written and settled, each by its own frame: the first
\* resolved after two list_OK lines, the second rejected by the ACK alone.
C29_Witness ==
  /\ promise[1].list = <<<<StatusText, PlayText>>, Omitted>>
  /\ promise[2].list = <<<<PlayText, ToggleText>>, "false">>
  /\ wire[1] = ListOkBegin \o <<"s", NL, "p", NL>> \o ListEnd
                 \o ListBegin \o <<"p", NL, "t", NL>> \o ListEnd
  /\ promise[1].state = "resolved" /\ promise[1].tag = 1
  /\ promise[1].value.full = BodyLine \o ListOKLine \o ListOKLine \o OKLine
  /\ promise[2].state = "rejected" /\ promise[2].tag = 2
  /\ promise[2].value.full = ACKLine


\* The number of status lines among the complete lines that transport s has
\* read: the lines that begin with OK or ACK, the banner apart.
RECURSIVE CountStatus(_)
CountStatus(lines) ==
  IF lines = <<>> THEN 0
  ELSE (IF /\ StartsWith(Head(lines), OKWord) \/ StartsWith(Head(lines), ACKWord)
           /\ ~StartsWith(Head(lines), OKMPDWord)
          THEN 1 ELSE 0) + CountStatus(Tail(lines))

StatusLinesRead(s) == CountStatus(FrameLines(s))

\* The server's answer to the commands of a list: for play nothing and for
\* status its body line, each followed by list_OK when ok, up to the first
\* command that fails; then ACK, or OK when none fails.
RECURSIVE AnswerTo(_, _)
AnswerTo(commands, ok) ==
  IF commands = <<>> THEN OKLine
  ELSE IF Head(commands) \notin {PlayText, StatusText} THEN ACKLine
  ELSE (IF Head(commands) = StatusText THEN BodyLine ELSE <<>>)
         \o (IF ok THEN ListOKLine ELSE <<>>)
         \o AnswerTo(Tail(commands), ok)

ListAnswer(list) == AnswerTo(list[1], list[2] # "false")

\* C30: a list_OK line ends no frame and takes no queue entry: the entries
\* taken are as many as the status lines read, the lines that begin with OK
\* or ACK; list_OK lines read before the status line are in the buffer; and
\* the full text a list is settled with is the server's whole answer, every
\* list_OK line in order and the status line.
C30_ListOKIsBody ==
  /\ stats.matched + stats.unsolicited = StatusLinesRead(1)
  /\ Len(queue) = stats.pushed - StatusLinesRead(1)
  /\ \A n \in 1..2 :
       EndsWith(stats.read[1], Repeat(ListOKLine, n)) =>
         EndsWith(buffer[1], Repeat(ListOKLine, n))
  /\ \A p \in Calls :
       (ListCall(p) /\ Settled(p)) =>
         promise[p].value.full = ListAnswer(promise[p].list)

\* C30 happens: the body line and the two list_OK lines of a list have been
\* read, the caller's
\* entry is still the head of the queue, and no frame has been dispatched.
C30_Witness ==
  /\ promise[1].list = <<<<StatusText, PlayText>>, Omitted>>
  /\ promise[1].state = "pending"
  /\ buffer[1] = BodyLine \o ListOKLine \o ListOKLine
  /\ Len(queue) > 0 /\ Head(queue) = CallEntry(1)
  /\ stats.matched = 0


(***************************************************************************)
(* Change events (C31).                                                    *)
(***************************************************************************)
\* The subsystems a field map names under 'changed', a single value as a
\* list of one.
Subsystems(data) ==
  IF data[ChangedKey].arr THEN data[ChangedKey].v ELSE <<data[ChangedKey].v>>

\* The events due for a field map: none without the key 'changed'; with it
\* 'changed' with the list, then 'changed:<name>' for each name in order.
ChangeEvents(data) ==
  IF ChangedKey \notin DOMAIN data THEN <<>>
  ELSE <<Plain("changed", Subsystems(data))>>
         \o [i \in 1..Len(Subsystems(data)) |-> Plain("changed:", Subsystems(data)[i])]

\* C31: the events of a transport, emitted or scheduled, are these: for the
\* frame that settled a call the change events of its field map; for a frame
\* nobody waited for its 'data' event and then the change events of its field
\* map; and a frame without the key 'changed' has no change event.
C31_ChangedEvents ==
  /\ stats.matched + stats.unsolicited = 0 => Events(1) = <<>>
  /\ stats.matched = 1 => Events(1) = ChangeEvents(promise[1].value.data)
  /\ stats.unsolicited = 1 =>
       /\ Len(Events(1)) >= 1 /\ Events(1)[1].kind = "data"
       /\ Events(1) = <<Events(1)[1]>> \o ChangeEvents(Events(1)[1].arg.data)

\* C31 happens: a command was resolved with a frame that names two
\* subsystems, and 'changed' with both and one event for each were emitted in
\* that order.
C31_Witness ==
  /\ promise[1].state = "resolved"
  /\ stats.read[1] = KeyLine(ChangedKey, SeparatorValue)
                       \o KeyLine(ChangedKey, <<"b">>) \o OKLine
  /\ emitted[1] = <<[name |-> "changed", arg |-> <<SeparatorValue, <<"b">>>>],
                    [name |-> "changed:", arg |-> SeparatorValue],
                    [name |-> "changed:", arg |-> <<"b">>]>>


(***************************************************************************)
(* The idle flag and inbound data (C32).                                   *)
(***************************************************************************)
\* C32: after every data event the idle flag is clear, whatever the chunk
\* holds.
C32_DataClearsIdle ==
  [][\A s \in Sockets : Delivered(s) => ~isIdle']_vars

\* C32 happens: the banner was read, play and then idle were written, the
\* flag was set by the write of idle, and the first character of the answer
\* to play, a chunk without a frame, has cleared it while the server idles.
C32_Witness ==
  \E p, q \in Calls :
    /\ promise[p].kind = "command" /\ promise[p].state = "pending"
    /\ promise[q].kind = "idle" /\ promise[q].state = "resolved"
    /\ ~promise[q].whileIdle
    /\ wire[1] = PlayText \o <<NL>> \o IdleLine
    /\ stats.banners = 1 /\ stats.lateBanners = 0
    /\ buffer[1] = <<"O">>
    /\ srv[1].idle
    /\ ~isIdle


(***************************************************************************)
(* Several frames in one chunk (C33).                                      *)
(***************************************************************************)
\* The complete lines of text, each with its newline, and the text after
\* the last newline.
RECURSIVE CompleteLines(_)
CompleteLines(text) ==
  IF \A i \in 1..Len(text) : text[i] # NL THEN <<>>
  ELSE LET n == CHOOSE i \in 1..Len(text) :
                  text[i] = NL /\ \A j \in 1..(i - 1) : text[j] # NL
       IN  <<SubSeq(text, 1, n)>> \o CompleteLines(SubSeq(text, n + 1, Len(text)))

AfterLastNewline(text) ==
  LET nls == {i \in 1..Len(text) : text[i] = NL}
  IN  IF nls = {} THEN text
      ELSE SubSeq(text, 1 + CHOOSE i \in nls : \A j \in nls : j <= i, Len(text))

\* The frames that end among lines, in order: each the body lines since the
\* frame or banner before it, body being those before lines, and its status
\* line.
RECURSIVE FramesAmong(_, _)
FramesAmong(lines, body) ==
  IF lines = <<>> THEN <<>>
  ELSE LET line == Head(lines)
       IN  IF StartsWith(line, OKMPDWord) THEN FramesAmong(Tail(lines), <<>>)
           ELSE IF StartsWith(line, OKWord) \/ StartsWith(line, ACKWord)
             THEN <<body \o line>> \o FramesAmong(Tail(lines), <<>>)
           ELSE FramesAmong(Tail(lines), body \o line)

\* The body lines among lines that follow the last frame or banner.
RECURSIVE BodyLeft(_, _)
BodyLeft(lines, body) ==
  IF lines = <<>> THEN body
  ELSE IF StartsWith(Head(lines), OKWord) \/ StartsWith(Head(lines), ACKWord)
    THEN BodyLeft(Tail(lines), <<>>)
  ELSE BodyLeft(Tail(lines), body \o Head(lines))

\* The full texts of the 'data' events among the events, in order.
RECURSIVE DataTexts(_)
DataTexts(events) ==
  IF events = <<>> THEN <<>>
  ELSE (IF Head(events).kind = "data" THEN <<Head(events).arg.full>> ELSE <<>>)
         \o DataTexts(Tail(events))

\* C33: after a data event whose chunk holds several frames, the first frame
\* has settled the call at the head of the queue, if there was one, the
\* frames after it are the 'data' events in the order of the stream, and the
\* body lines of an unfinished frame and the text after the last newline of
\* the chunk are kept for the next chunk.
C33_FramesInOrder ==
  stats.read[1] # <<>> =>
    LET frames == FramesAmong(CompleteLines(stats.read[1]), <<>>)
        waited == promise[1].kind = "command"
        matched == IF waited /\ frames # <<>> THEN 1 ELSE 0
    IN  /\ stats.matched = matched
        /\ stats.unsolicited = Len(frames) - matched
        /\ matched = 1 =>
             /\ Settled(1) /\ promise[1].nth = 1
             /\ promise[1].value.full = frames[1]
             /\ queue = <<>>
        /\ (waited /\ frames = <<>>) => (promise[1].state = "pending" /\ Len(queue) = 1)
        /\ DataTexts(Events(1)) = SubSeq(frames, matched + 1, Len(frames))
        /\ buffer[1] = BodyLeft(CompleteLines(stats.read[1]), <<>>)
                          \o AfterLastNewline(stats.read[1])

\* C33 happens: one chunk has held the answer to the pending command, a
\* second frame and the first character of a third; the command is rejected
\* with the first, the second is a 'data' event and the character is kept.
C33_Witness ==
  /\ stats.read[1] = ACKLine \o OKLine \o <<"O">>
  /\ inbound[1] = <<"K", NL>>
  /\ promise[1].state = "rejected" /\ promise[1].value.full = ACKLine
  /\ DataTexts(Events(1)) = <<OKLine>>
  /\ buffer[1] = <<"O">>


\* C34: a command list of the list_OK kind of which a command succeeded is
\* resolved with an empty field map, whatever key: value lines its commands
\* returned; those lines are in the full text.
C34_ListDataEmpty ==
  \A p \in Calls :
    (/\ ListCall(p) /\ promise[p].state = "resolved"
     /\ promise[p].list[2] # "false"
     /\ \E i \in 1..Len(promise[p].list[1]) :
          promise[p].list[1][i] \in {PlayText, StatusText}) =>
      /\ promise[p].value.data = EmptyData
      /\ promise[p].value.full = ListAnswer(promise[p].list)

\* C34 happens: the list of status and play is resolved; the field a: b that
\* status returned is in the full text and not in the field map.
C34_Witness ==
  \E p \in Calls :
    /\ promise[p].list = <<<<StatusText, PlayText>>, Omitted>>
    /\ promise[p].state = "resolved"
    /\ promise[p].value.data = EmptyData
    /\ StartsWith(promise[p].value.full, BodyLine)


(***************************************************************************)
(* Reconnecting (C35).                                                     *)
(***************************************************************************)
\* C35: a command is settled only by a frame of the transport it was written
\* to, the server's answer to a command of that transport; nothing left of
\* an earlier transport settles or takes the entry of a command of a later
\* one, and no frame of a later transport settles a command of an earlier one.
C35_ReconnectIsolation ==
  \A p \in Calls :
    (promise[p].kind = "command" /\ Settled(p)) =>
      /\ promise[p].tag \in Calls
      /\ promise[promise[p].tag].sock = promise[p].sock


(***************************************************************************)
(* A notification that crosses an injected noidle (C36).                   *)
(***************************************************************************)
\* Call p is the only command of the session; it found the idle flag set, so
\* that noidle was put in front of it, and the one idle period of the server
\* was ended by a change: the notification was sent before the noidle was
\* read, and the server sent no other frame for that period.
Crossed(p) ==
  /\ promise[p].kind = "command" /\ promise[p].whileIdle
  /\ \A q \in Calls \ {p} :
       /\ promise[q].kind # "command"
       /\ promise[q].kind = "idle" => (q < p /\ ~promise[q].whileIdle)
  /\ srv[1].changes = 1

\* C36: when the notification and the injected noidle have crossed, the
\* command is settled with the frame the server sent for it and the queue is
\* empty, once nothing is under way.
C36_CrossingSettles ==
  \A p \in Calls :
    (Crossed(p) /\ Quiet(1)) =>
      /\ Settled(p) /\ promise[p].tag = p
      /\ queue = <<>>


(***************************************************************************)
(* The noidle lines of one idle period (C37).                              *)
(***************************************************************************)
\* The call p is a command that found the idle flag set and is not a noidle
\* itself: 'noidle\n' was put in front of its text, and its write pushes a
\* no-op pair.
Injected(p) ==
  /\ promise[p].kind = "command"
  /\ promise[p].whileIdle
  /\ ~StartsWith(promise[p].text, NoIdleLine)

\* The calls of idle() that handed 'idle\n' to the transport.  The flag is set
\* by the write callback of such a call and by nothing else, and any data read
\* clears it: with one such call the flag was set at most once, and no data
\* was read between two calls that found it set.
IdleWrites == {q \in Calls : promise[q].kind = "idle" /\ ~promise[q].whileIdle}

\* C37: among the command() calls made while the flag stays set, before any
\* inbound data, at most one has 'noidle' prepended.
C37_OneNoIdlePerPeriod ==
  Cardinality(IdleWrites) <= 1 =>
    Cardinality({p \in Calls : Injected(p)}) <= 1


(***************************************************************************)
(* idle() called again before its write has completed (C38).               *)
(***************************************************************************)
\* An 'idle\n' handed to transport s by idle() waits for its write callback.
IdleWritePending(s) ==
  \E i \in 1..Len(pendingWrites[s]) : pendingWrites[s][i].cb.kind = "idle"

\* C38: a call of idle() made while the write callback of an earlier idle()
\* on the same transport has not run hands nothing to the transport.
C38_OneIdleOutstanding ==
  [][\A p \in Calls : \A s \in Sockets :
       (IdleCalled(p) /\ s = socket /\ IdleWritePending(s))
         => pendingWrites' = pendingWrites]_vars


(***************************************************************************)
(* The value connect() resolves with (C39).                                *)
(***************************************************************************)
\* C39: the promise of connect() is resolved with the banner line the server
\* sent, and every 'ready' event carries that line, whatever else was read
\* with it or before the event was emitted.
C39_ReadyIsBanner ==
  \A s \in Sockets :
    /\ connPromise[s].state = "resolved" => connPromise[s].value = Banner
    /\ \A i \in 1..Len(emitted[s]) :
         emitted[s][i].name = "ready" => emitted[s][i].arg = Banner

=============================================================================
